---- MODULE Spec2Model ----
(***************************************************************************)
(* The internal wallet transfer / ledger engine: createTransfer (the       *)
(* default handler), its helpers, and processInternalTransfer.             *)
(*                                                                         *)
(* Money is counted in hundredths of the currency's smallest unit, so that *)
(* a percentage fee of an amount given at the currency's precision is an   *)
(* integer: one smallest unit is PctDenom of these.                        *)
(***************************************************************************)
EXTENDS Integers, Sequences, FiniteSets, TLC

\* ---------------------------------------------------------------- bounds
MaxAmount == 2        \* largest requested amount, in smallest currency units
MaxChanges == 1       \* requests are served until this many have changed the persisted state
MaxChain == 2         \* largest balance of one chain handed to the per-chain deduction
NumProcs == 2         \* number of requests in flight at once
MaxTime == 2          \* seconds the clock of the deposit watcher runs
MaxDeposits == 1      \* transactions that appear on the chain while the watcher runs

\* ------------------------------------------------------ program constants
PctDenom == 100       \* fee = amount * percentage / 100

Unit == PctDenom      \* one smallest currency unit (10^-precision)

Users == {"u1", "u2"}
NoUser == "none"      \* no session user / no clientId in the body
Ghost == "ghost"      \* an id with no row in the user table
Types == {"FIAT", "SPOT", "ECO", "FUTURES"}
OtherType == "OTHER"  \* a type string outside the four wallet types
Currency == "USDT"
Placeholder == "Select a currency"
Chains == <<"chainA", "chainB", "chainC">>
Procs == 1..NumProcs
FeeSettings == {-1, 0, 50}     \* -1: the setting is absent from the cache
Amounts == {a * Unit : a \in (0 - 1) .. MaxAmount}

VARIABLES
  wallets,       \* the wallet table: a sequence of rows, a row's id is its index
  transactions,  \* the transaction table (TransferTransaction rows)
  adminProfits,  \* the adminProfit table
  ledger,        \* the private ledger: records of per-chain deltas
  feeSetting,    \* settings cache: walletTransferFeePercentage
  before,        \* the persisted state the last request started from
  last,          \* the last request and its outcome
  nchanges,      \* number of requests that changed the persisted state
  probe,         \* one call of the per-chain deduction: its arguments and its result
  procs          \* the requests in flight at once: each one's position and locals

vars == <<wallets, transactions, adminProfits, ledger, feeSetting, before, last, nchanges,
          probe, procs>>

Min(a, b) == IF a < b THEN a ELSE b

\* ------------------------------------------------------------- the tables
DB == [wallets |-> wallets, transactions |-> transactions,
       adminProfits |-> adminProfits, ledger |-> ledger]

NullAddress == [null |-> TRUE, entries |-> <<>>]

\* JSON.stringify(addresses): the stored text of a chain map
Stringify(entries) == [null |-> FALSE, entries |-> entries]

parseAddresses(address) == IF address.null THEN <<>> ELSE address.entries

Entry(c, a, n, b) == [chain |-> c, address |-> a, network |-> n, balance |-> b]

\* models.wallet.findOne({where: {userId, currency, type}}): id of the first
\* matching row, 0 when there is none
FindWallet(ws, u, c, t) ==
  LET hits == {i \in 1..Len(ws) : ws[i].userId = u /\ ws[i].currency = c /\ ws[i].type = t}
  IN IF hits = {} THEN 0 ELSE CHOOSE i \in hits : \A j \in hits : i <= j

\* models.wallet.create({userId, currency, type, status: true})
NewWallet(u, c, t) ==
  [userId |-> u, currency |-> c, type |-> t, balance |-> 0, address |-> NullAddress]

\* models.user.findByPk(id)
UserExists(id) == id \in Users

InitWallets ==
  << [userId |-> "u1", currency |-> Currency, type |-> "FIAT", balance |-> 2 * Unit,
      address |-> NullAddress],
     [userId |-> "u1", currency |-> Currency, type |-> "ECO", balance |-> 3 * Unit,
      address |-> Stringify(<<Entry("chainA", "0xa1", "mainnet", 1 * Unit),
                              Entry("chainB", "0xb1", "mainnet", 2 * Unit)>>)],
     [userId |-> "u2", currency |-> Currency, type |-> "ECO", balance |-> 1 * Unit,
      address |-> Stringify(<<Entry("chainB", "0xb2", "mainnet", 1 * Unit)>>)],
     [userId |-> "u2", currency |-> Currency, type |-> "SPOT", balance |-> 1 * Unit,
      address |-> NullAddress],
     [userId |-> "u2", currency |-> Currency, type |-> "FUTURES", balance |-> 2 * Unit,
      address |-> NullAddress] >>

\* -------------------------------------------------- helpers of ./utils
\* calculateTransferFee(amount, percentage)
calculateTransferFee(amount, percentage) == (amount * percentage) \div PctDenom

\* the setting taken as it is, absent or not
FeePercentage_NoDefault(setting) == setting

\* settings.get("walletTransferFeePercentage") || 0
FeePercentage(setting) == IF setting = 0 - 1 THEN 0 ELSE setting

\* round to the currency's precision (half away from zero)
RoundToPrecision(x) ==
  IF x >= 0 THEN ((x + Unit \div 2) \div Unit) * Unit
  ELSE 0 - ((((0 - x) + Unit \div 2) \div Unit) * Unit)

\* calculateNewBalance(balance, delta, currencyData)
calculateNewBalance(balance, delta) == RoundToPrecision(balance + delta)

\* updatePrivateLedger(walletId, index, currency, chain, delta[, t])
LedgerRecord(walletId, currency, chain, delta) ==
  [walletId |-> walletId, currency |-> currency, chain |-> chain, amount |-> delta]

\* updateWalletBalances(fromWallet, toWallet, parsedAmount, targetReceiveAmount,
\* precision, t): two row updates, each computed from the wallet object the
\* request holds (from, to), the source first
updateWalletBalances(ws, fromId, toId, from, to, parsedAmount, targetReceiveAmount) ==
  LET w1 == [ws EXCEPT ![fromId].balance = RoundToPrecision(from.balance - parsedAmount)]
  IN [w1 EXCEPT ![toId].balance = RoundToPrecision(to.balance + targetReceiveAmount)]

\* createTransferTransaction(userId, walletId, type, amount, fee, fromCurrency,
\* toCurrency, fromWalletId, toWalletId, description, status, t)
TransferRecord(id, userId, walletId, type, amount, fee, fromCurrency, toCurrency, fromWalletId, toWalletId, status) ==
  [id |-> id, userId |-> userId, walletId |-> walletId, type |-> type,
   amount |-> amount, fee |-> fee, fromCurrency |-> fromCurrency,
   toCurrency |-> toCurrency, fromWallet |-> fromWalletId, toWallet |-> toWalletId,
   status |-> status]

\* recordAdminProfit({userId, transferFeeAmount, fromCurrency, fromType, toType,
\* transactionId, t})
ProfitRecord(userId, transferFeeAmount, fromCurrency, fromType, toType, transactionId) ==
  [userId |-> userId, amount |-> transferFeeAmount, currency |-> fromCurrency,
   fromType |-> fromType, toType |-> toType, transactionId |-> transactionId]

\* getSortedChainBalances(addresses): the chain entries, largest balance first,
\* equal balances in key order
RECURSIVE getSortedChainBalances(_)
getSortedChainBalances(entries) ==
  IF entries = <<>> THEN <<>>
  ELSE LET best == CHOOSE i \in 1..Len(entries) :
                     \A j \in 1..Len(entries) :
                        \/ entries[i].balance > entries[j].balance
                        \/ entries[i].balance = entries[j].balance /\ i <= j
           rest == [k \in 1..(Len(entries) - 1) |->
                      IF k < best THEN entries[k] ELSE entries[k + 1]]
       IN <<entries[best]>> \o getSortedChainBalances(rest)

\* ------------------------------------------------- the per-chain ledger
\* the loop of deductFromEcoWallet without its test of the chain's balance
RECURSIVE DeductLoop_NoSkip(_, _, _, _)
DeductLoop_NoSkip(addresses, i, remainingAmount, deductionDetails) ==
  IF i > Len(addresses)
  THEN [addresses |-> addresses, remaining |-> remainingAmount, details |-> deductionDetails]
  ELSE LET transferableAmount == Min(addresses[i].balance, remainingAmount)
           a2 == [addresses EXCEPT ![i].balance = @ - transferableAmount]
           d2 == Append(deductionDetails,
                        [chain |-> addresses[i].chain, amount |-> transferableAmount])
           r2 == remainingAmount - transferableAmount
       IN IF r2 <= 0
          THEN [addresses |-> a2, remaining |-> r2, details |-> d2]
          ELSE DeductLoop_NoSkip(a2, i + 1, r2, d2)

\* the loop of deductFromEcoWallet from the i-th key of the chain map on
RECURSIVE DeductLoop(_, _, _, _)
DeductLoop(addresses, i, remainingAmount, deductionDetails) ==
  IF i > Len(addresses)
  THEN [addresses |-> addresses, remaining |-> remainingAmount, details |-> deductionDetails]
  ELSE IF addresses[i].balance > 0
  THEN LET transferableAmount == Min(addresses[i].balance, remainingAmount)
           a2 == [addresses EXCEPT ![i].balance = @ - transferableAmount]
           d2 == Append(deductionDetails,
                        [chain |-> addresses[i].chain, amount |-> transferableAmount])
           r2 == remainingAmount - transferableAmount
       IN IF r2 <= 0
          THEN [addresses |-> a2, remaining |-> r2, details |-> d2]
          ELSE DeductLoop(a2, i + 1, r2, d2)
  ELSE DeductLoop(addresses, i + 1, remainingAmount, deductionDetails)

\* deductFromEcoWallet(wallet, amount, currency, t): ok is FALSE when it throws;
\* ledger holds the private-ledger records it wrote (without the transaction t);
\* address is the text it stores in the wallet row when it does not throw
Deducted(walletId, currency, r) ==
  [ok |-> ~(r.remaining > 0),
   address |-> Stringify(r.addresses),
   details |-> r.details,
   ledger |-> [k \in 1..Len(r.details) |->
                 LedgerRecord(walletId, currency, r.details[k].chain,
                              0 - r.details[k].amount)]]

deductFromEcoWallet(walletId, wallet, amount, currency) ==
  Deducted(walletId, currency, DeductLoop(parseAddresses(wallet.address), 1, amount, <<>>))

ChainIndex(addresses, chain) ==
  LET hits == {i \in 1..Len(addresses) : addresses[i].chain = chain}
  IN IF hits = {} THEN 0 ELSE CHOOSE i \in hits : TRUE

\* the loop of addToEcoWallet storing the amount in place of adding it
RECURSIVE AddLoop_Overwrite(_, _, _)
AddLoop_Overwrite(addresses, deductionDetails, k) ==
  IF k > Len(deductionDetails) THEN addresses
  ELSE LET d == deductionDetails[k]
           a1 == IF ChainIndex(addresses, d.chain) = 0
                 THEN Append(addresses, Entry(d.chain, "null", "null", 0))
                 ELSE addresses
           i == ChainIndex(a1, d.chain)
       IN AddLoop_Overwrite([a1 EXCEPT ![i].balance = d.amount], deductionDetails, k + 1)

\* the loop of addToEcoWallet from the k-th detail on
RECURSIVE AddLoop(_, _, _)
AddLoop(addresses, deductionDetails, k) ==
  IF k > Len(deductionDetails) THEN addresses
  ELSE LET d == deductionDetails[k]
           a1 == IF ChainIndex(addresses, d.chain) = 0
                 THEN Append(addresses, Entry(d.chain, "null", "null", 0))
                 ELSE addresses
           i == ChainIndex(a1, d.chain)
       IN AddLoop([a1 EXCEPT ![i].balance = @ + d.amount], deductionDetails, k + 1)

\* addToEcoWallet(wallet, deductionDetails, currency, t)
addToEcoWallet(walletId, wallet, deductionDetails, currency) ==
  [address |-> Stringify(AddLoop(parseAddresses(wallet.address), deductionDetails, 1)),
   ledger |-> [k \in 1..Len(deductionDetails) |->
                 LedgerRecord(walletId, currency, deductionDetails[k].chain,
                              deductionDetails[k].amount)]]

\* the loop of handleEcoClientBalanceTransfer over the sorted chains: the
\* amount left and the private-ledger records written (with the transaction t)
RECURSIVE EcoClientLoop(_, _, _, _, _, _, _)
EcoClientLoop(sorted, i, remainingAmount, fromId, toId, currency, written) ==
  IF i > Len(sorted) \/ remainingAmount <= 0
  THEN [remaining |-> remainingAmount, ledger |-> written]
  ELSE LET transferableAmount == Min(sorted[i].balance, remainingAmount)
       IN EcoClientLoop(sorted, i + 1, remainingAmount - transferableAmount,
                        fromId, toId, currency,
                        written \o <<LedgerRecord(fromId, currency, sorted[i].chain,
                                                  0 - transferableAmount),
                                     LedgerRecord(toId, currency, sorted[i].chain,
                                                  transferableAmount)>>)

\* --------------------------------------------------- wallet resolution
\* validTransfers of handleWalletTransfer
validTransfers(fromType) ==
  CASE fromType = "FIAT" -> {"SPOT", "ECO"}
    [] fromType = "SPOT" -> {"FIAT", "ECO"}
    [] fromType = "ECO" -> {"FIAT", "SPOT", "FUTURES"}
    [] fromType = "FUTURES" -> {"ECO"}
    [] OTHER -> {}

\* findOne and, when there is no row, create: the table afterwards and the id
FindOrCreate(ws, u, c, t) ==
  IF FindWallet(ws, u, c, t) # 0
  THEN [wallets |-> ws, id |-> FindWallet(ws, u, c, t)]
  ELSE [wallets |-> Append(ws, NewWallet(u, c, t)), id |-> Len(ws) + 1]

\* getWalletByUserIdAndCurrency(userId, currency) of @b/utils/eco/wallet: the
\* ECO-specific lookup
getWalletByUserIdAndCurrency(ws, userId, currency) == FindWallet(ws, userId, currency, "ECO")

Resolved(code, ws, toId) == [code |-> code, wallets |-> ws, toId |-> toId]

\* the recipient's wallet found or created without a look at the recipient
handleClientTransfer_Unchecked(ws, clientId, currency, fromType) ==
  LET r == FindOrCreate(ws, clientId, currency, fromType)
  IN Resolved(0, r.wallets, r.id)

\* handleClientTransfer(clientId, currency, fromType); code 0: no error
handleClientTransfer(ws, clientId, currency, fromType) ==
  IF clientId = NoUser THEN Resolved(400, ws, 0)
  ELSE IF ~UserExists(clientId) THEN Resolved(404, ws, 0)
  ELSE IF fromType = "ECO"
  THEN LET id == getWalletByUserIdAndCurrency(ws, clientId, currency)
       IN IF id = 0 THEN Resolved(404, ws, 0) ELSE Resolved(0, ws, id)
  ELSE LET r == FindOrCreate(ws, clientId, currency, fromType)
       IN Resolved(0, r.wallets, r.id)

\* handleWalletTransfer(userId, fromType, toType, toCurrency)
handleWalletTransfer(ws, userId, fromType, toType, toCurrency) ==
  IF fromType = toType THEN Resolved(400, ws, 0)
  ELSE IF toType \notin validTransfers(fromType) THEN Resolved(400, ws, 0)
  ELSE LET r == FindOrCreate(ws, userId, toCurrency, toType)
       IN Resolved(0, r.wallets, r.id)

\* ------------------------------------------------ the atomic transaction
\* What the body of a sequelize.transaction callback did: ok is FALSE when it
\* threw; wallets and tledger are writes made with the transaction t, leak the
\* private-ledger records written without it
Body(ok, ws, tledger, leak, details) ==
  [ok |-> ok, wallets |-> ws, tledger |-> tledger, leak |-> leak, details |-> details]

\* handleEcoClientBalanceTransfer after its loop, r being what the loop left
EcoClientSettle(ws, fromId, toId, from, to, parsedAmount, r) ==
  IF r.remaining > 0
  THEN Body(FALSE, ws, r.ledger, <<>>, <<>>)
  ELSE Body(TRUE,
            updateWalletBalances(ws, fromId, toId, from, to, parsedAmount, parsedAmount),
            r.ledger, <<>>, <<>>)

handleEcoClientBalanceTransfer(ws, fromId, toId, from, to, parsedAmount, fromCurrency) ==
  EcoClientSettle(ws, fromId, toId, from, to, parsedAmount,
                  EcoClientLoop(getSortedChainBalances(parseAddresses(from.address)), 1,
                                parsedAmount, fromId, toId, fromCurrency, <<>>))

\* the ECO to ECO part shared by handleNonClientTransfer and
\* processInternalTransfer: deductFromEcoWallet, then addToEcoWallet
\* the two wallet.update({address}) calls, d and a being what the deduction
\* and the credit computed
EcoStore(ws, fromId, toId, d, a) ==
  Body(TRUE, [[ws EXCEPT ![fromId].address = d.address] EXCEPT ![toId].address = a.address],
       <<>>, d.ledger \o a.ledger, d.details)

EcoCredit(ws, fromId, toId, to, currency, d) ==
  IF ~d.ok
  THEN Body(FALSE, ws, <<>>, d.ledger, d.details)
  ELSE EcoStore(ws, fromId, toId, d, addToEcoWallet(toId, to, d.details, currency))

EcoToEco(ws, fromId, toId, from, to, parsedAmount, currency) ==
  EcoCredit(ws, fromId, toId, to, currency,
            deductFromEcoWallet(fromId, from, parsedAmount, currency))

\* updateWalletBalances after the ECO to ECO part e of handleNonClientTransfer
NonClientSettle(fromId, toId, from, to, parsedAmount, targetReceiveAmount, e) ==
  IF ~e.ok THEN e
  ELSE Body(TRUE,
            updateWalletBalances(e.wallets, fromId, toId, from, to,
                                 parsedAmount, targetReceiveAmount),
            <<>>, e.leak, e.details)

handleNonClientTransfer(ws, fromId, toId, from, to, parsedAmount, targetReceiveAmount, fromCurrency) ==
  IF from.type = "ECO" /\ to.type = "ECO"
  THEN NonClientSettle(fromId, toId, from, to, parsedAmount, targetReceiveAmount,
                       EcoToEco(ws, fromId, toId, from, to, parsedAmount, fromCurrency))
  ELSE Body(TRUE,
            updateWalletBalances(ws, fromId, toId, from, to,
                                 parsedAmount, targetReceiveAmount),
            <<>>, <<>>, <<>>)

handleCompleteTransfer(ws, fromId, toId, from, to, parsedAmount, targetReceiveAmount, transferType, fromType, fromCurrency) ==
  IF fromType = "ECO" /\ transferType = "client"
  THEN handleEcoClientBalanceTransfer(ws, fromId, toId, from, to, parsedAmount, fromCurrency)
  ELSE handleNonClientTransfer(ws, fromId, toId, from, to, parsedAmount,
                               targetReceiveAmount, fromCurrency)

handlePendingTransfer(ws, fromId, toId, from, to, totalDeducted, targetReceiveAmount, transferStatus) ==
  LET w1 == [ws EXCEPT ![fromId].balance = calculateNewBalance(from.balance, 0 - totalDeducted)]
  IN IF transferStatus = "COMPLETED"
     THEN Body(TRUE,
               [w1 EXCEPT ![toId].balance = calculateNewBalance(to.balance, targetReceiveAmount)],
               <<>>, <<>>, <<>>)
     ELSE Body(TRUE, w1, <<>>, <<>>, <<>>)

\* RecordTransfer with the incoming leg recorded at the gross amount
RecordTransfer_GrossIncoming(db, fromUser, toUser, fromId, toId, parsedAmount, transferFeeAmount, fromCurrency, toCurrency, fromType, toType, transferStatus) ==
  LET outId == Len(db.transactions) + 1
      fromTransfer == TransferRecord(outId, fromUser, fromId, "OUTGOING_TRANSFER",
                                     parsedAmount, transferFeeAmount, fromCurrency,
                                     toCurrency, fromId, toId, transferStatus)
      toTransfer == TransferRecord(outId + 1, toUser, toId, "INCOMING_TRANSFER",
                                   parsedAmount, 0, fromCurrency,
                                   toCurrency, fromId, toId, transferStatus)
  IN [db EXCEPT
        !.transactions = @ \o <<fromTransfer, toTransfer>>,
        !.adminProfits = IF transferFeeAmount > 0
                         THEN Append(@, ProfitRecord(fromUser, transferFeeAmount,
                                                     fromCurrency, fromType, toType,
                                                     fromTransfer.id))
                         ELSE @]

\* RecordTransfer with the profit record linked to the incoming leg
RecordTransfer_LinkIncoming(db, fromUser, toUser, fromId, toId, parsedAmount, transferFeeAmount, fromCurrency, toCurrency, fromType, toType, transferStatus) ==
  LET outId == Len(db.transactions) + 1
      fromTransfer == TransferRecord(outId, fromUser, fromId, "OUTGOING_TRANSFER",
                                     parsedAmount, transferFeeAmount, fromCurrency,
                                     toCurrency, fromId, toId, transferStatus)
      toTransfer == TransferRecord(outId + 1, toUser, toId, "INCOMING_TRANSFER",
                                   parsedAmount - transferFeeAmount, 0, fromCurrency,
                                   toCurrency, fromId, toId, transferStatus)
  IN [db EXCEPT
        !.transactions = @ \o <<fromTransfer, toTransfer>>,
        !.adminProfits = IF transferFeeAmount > 0
                         THEN Append(@, ProfitRecord(fromUser, transferFeeAmount,
                                                     fromCurrency, fromType, toType,
                                                     toTransfer.id))
                         ELSE @]

\* the two createTransferTransaction calls and the conditional recordAdminProfit
RecordTransfer(db, fromUser, toUser, fromId, toId, parsedAmount, transferFeeAmount, fromCurrency, toCurrency, fromType, toType, transferStatus) ==
  LET outId == Len(db.transactions) + 1
      fromTransfer == TransferRecord(outId, fromUser, fromId, "OUTGOING_TRANSFER",
                                     parsedAmount, transferFeeAmount, fromCurrency,
                                     toCurrency, fromId, toId, transferStatus)
      toTransfer == TransferRecord(outId + 1, toUser, toId, "INCOMING_TRANSFER",
                                   parsedAmount - transferFeeAmount, 0, fromCurrency,
                                   toCurrency, fromId, toId, transferStatus)
  IN [db EXCEPT
        !.transactions = @ \o <<fromTransfer, toTransfer>>,
        !.adminProfits = IF transferFeeAmount > 0
                         THEN Append(@, ProfitRecord(fromUser, transferFeeAmount,
                                                     fromCurrency, fromType, toType,
                                                     fromTransfer.id))
                         ELSE @]

\* the outcome of a request: the persisted state afterwards, the HTTP status
\* code (200 on success), whether the atomic transaction was opened and whether
\* it committed, and what the request resolved and computed
Outcome(db, code, opened, committed, status, fee, fromId, toId, rl, details) ==
  [db |-> db, code |-> code, opened |-> opened, committed |-> committed,
   status |-> status, fee |-> fee, fromId |-> fromId, toId |-> toId,
   requiresLedgerUpdate |-> rl, details |-> details]

\* sequelize.transaction: commit the body's writes, or roll them back and keep
\* only what was written outside the transaction
Rollback(db, body) == [db EXCEPT !.ledger = @ \o body.leak]

\* the transaction of performTransaction once its callback's balance step has
\* run (body): the two records, the profit record, and commit or rollback
Transact(db, req, fromId, toId, transferFeeAmount, transferStatus, rl, dbFails, body) ==
  IF ~body.ok
  THEN Outcome(Rollback(db, body), 400, TRUE, FALSE, "NONE", transferFeeAmount,
               fromId, toId, rl, body.details)
  ELSE IF dbFails
  THEN Outcome(Rollback(db, body), 500, TRUE, FALSE, "NONE", transferFeeAmount,
               fromId, toId, rl, body.details)
  ELSE Outcome(RecordTransfer([db EXCEPT !.wallets = body.wallets,
                                         !.ledger = @ \o body.tledger \o body.leak],
                              req.user,
                              IF req.transferType = "client" THEN req.clientId ELSE req.user,
                              fromId, toId, req.amount,
                              transferFeeAmount, req.fromCurrency, req.toCurrency,
                              req.fromType, req.toType, transferStatus),
               200, TRUE, TRUE, transferStatus, transferFeeAmount, fromId, toId, rl,
               body.details)

\* performTransaction(transferType, fromWallet, toWallet, parsedAmount, ...):
\* rl is what requiresPrivateLedgerUpdate(transferType, fromType, toType)
\* returns, dbFails whether an insert of the transaction's records fails
performTransaction(db, req, fromId, toId, from, to, feePct, rl, dbFails) ==
  LET transferFeeAmount == calculateTransferFee(req.amount, feePct)
      totalDeducted == req.amount
      targetReceiveAmount == req.amount - transferFeeAmount
      transferStatus == IF rl THEN "PENDING" ELSE "COMPLETED"
  IN IF from.balance < totalDeducted
     THEN Outcome(db, 400, FALSE, FALSE, "NONE", transferFeeAmount, fromId, toId, FALSE, <<>>)
     ELSE Transact(db, req, fromId, toId, transferFeeAmount, transferStatus, rl, dbFails,
                   IF ~rl
                   THEN handleCompleteTransfer(db.wallets, fromId, toId, from, to,
                                               req.amount, targetReceiveAmount,
                                               req.transferType, req.fromType,
                                               req.fromCurrency)
                   ELSE handlePendingTransfer(db.wallets, fromId, toId, from, to,
                                              totalDeducted, targetReceiveAmount,
                                              transferStatus))

\* ------------------------------------------------------- the handlers
Request(op, user, transferType, fromType, toType, amount, clientId, toCurrency) ==
  [op |-> op, user |-> user, transferType |-> transferType, fromType |-> fromType,
   toType |-> toType, amount |-> amount, clientId |-> clientId,
   fromCurrency |-> Currency, toCurrency |-> toCurrency]

Failed(db, code, fromId, toId) ==
  Outcome(db, code, FALSE, FALSE, "NONE", 0, fromId, toId, FALSE, <<>>)

\* the default handler (createTransfer) from the balance check on, r being
\* what the resolution of the destination wallet returned
Checked(db, req, fromId, r, feePct, currencyOk, rl, dbFails) ==
  IF r.code # 0 THEN Failed([db EXCEPT !.wallets = r.wallets], r.code, fromId, 0)
  ELSE IF r.wallets[fromId].balance < req.amount
  THEN Failed([db EXCEPT !.wallets = r.wallets], 400, fromId, r.toId)
  ELSE IF ~currencyOk THEN Failed([db EXCEPT !.wallets = r.wallets], 400, fromId, r.toId)
  ELSE performTransaction([db EXCEPT !.wallets = r.wallets], req, fromId, r.toId,
                          r.wallets[fromId], r.wallets[r.toId], feePct, rl, dbFails)

\* the default handler (createTransfer); currencyOk: getCurrencyData finds the
\* currency
createTransfer(db, req, feePct, currencyOk, rl, dbFails) ==
  IF req.user = NoUser THEN Failed(db, 401, 0, 0)
  ELSE IF req.toCurrency = Placeholder THEN Failed(db, 400, 0, 0)
  ELSE IF ~UserExists(req.user) THEN Failed(db, 404, 0, 0)
  ELSE IF FindWallet(db.wallets, req.user, req.fromCurrency, req.fromType) = 0
  THEN Failed(db, 404, 0, 0)
  ELSE Checked(db, req, FindWallet(db.wallets, req.user, req.fromCurrency, req.fromType),
               IF req.transferType = "client"
               THEN handleClientTransfer(db.wallets, req.clientId, req.fromCurrency,
                                         req.fromType)
               ELSE handleWalletTransfer(db.wallets, req.user, req.fromType, req.toType,
                                         req.toCurrency),
               feePct, currencyOk, rl, dbFails)

\* the transaction of processInternalTransfer, e being what its ECO to ECO
\* part did
InternalTransact(db, req, fromId, toId, from, to, transferFeeAmount, currencyOk, dbFails, e) ==
  IF ~e.ok
  THEN Outcome(Rollback(db, e), 400, TRUE, FALSE, "NONE", transferFeeAmount,
               fromId, toId, FALSE, e.details)
  ELSE IF ~currencyOk \/ dbFails
  THEN Outcome(Rollback(db, e), 500, TRUE, FALSE, "NONE", transferFeeAmount,
               fromId, toId, FALSE, e.details)
  ELSE Outcome(RecordTransfer(
                 [db EXCEPT
                    !.wallets = updateWalletBalances(e.wallets, fromId, toId, from, to,
                                  req.amount, req.amount - transferFeeAmount),
                    !.ledger = @ \o e.leak],
                 req.user, req.clientId, fromId, toId, req.amount, transferFeeAmount,
                 req.fromCurrency, req.fromCurrency, "ECO", "ECO", "COMPLETED"),
               200, TRUE, TRUE, "COMPLETED", transferFeeAmount, fromId, toId, FALSE, e.details)

\* processInternalTransfer from its balance check on, r being the recipient's
\* wallet, found or created
InternalChecked(db, req, fromId, r, feePct, currencyOk, dbFails) ==
  IF r.wallets[fromId].balance < req.amount
  THEN Failed([db EXCEPT !.wallets = r.wallets], 400, fromId, r.id)
  ELSE InternalTransact([db EXCEPT !.wallets = r.wallets], req, fromId, r.id,
                        r.wallets[fromId], r.wallets[r.id],
                        (req.amount * feePct) \div PctDenom, currencyOk, dbFails,
                        IF r.wallets[fromId].type = "ECO" /\ r.wallets[r.id].type = "ECO"
                        THEN EcoToEco(r.wallets, fromId, r.id, r.wallets[fromId],
                                      r.wallets[r.id], req.amount, req.fromCurrency)
                        ELSE Body(TRUE, r.wallets, <<>>, <<>>, <<>>))

\* processInternalTransfer(fromUserId, toUserId, currency, chain, amount), with
\* req.user the sender and req.clientId the recipient
processInternalTransfer(db, req, feePct, currencyOk, dbFails) ==
  IF FindWallet(db.wallets, req.user, req.fromCurrency, "ECO") = 0
  THEN Failed(db, 404, 0, 0)
  ELSE InternalChecked(db, req, FindWallet(db.wallets, req.user, req.fromCurrency, "ECO"),
                       FindOrCreate(db.wallets, req.clientId, req.fromCurrency, "ECO"),
                       feePct, currencyOk, dbFails)

\* ---------------------------------------------------------- the machine
NoRequest == Request("none", NoUser, "none", "none", "none", 0, NoUser, Currency)

\* no request is being served
Idle == [req |-> NoRequest,
         out |-> [code |-> 0, opened |-> FALSE, committed |-> FALSE,
                  status |-> "NONE", fee |-> 0,
                  fromId |-> 0, toId |-> 0, requiresLedgerUpdate |-> FALSE,
                  details |-> <<>>]]

\* no call of the per-chain deduction is being looked at
NoProbe == [address |-> NullAddress, amount |-> 0, done |-> FALSE,
            result |-> [ok |-> FALSE, address |-> NullAddress, details |-> <<>>,
                        ledger |-> <<>>]]

Init ==
  /\ wallets = InitWallets
  /\ transactions = <<>>
  /\ adminProfits = <<>>
  /\ ledger = <<>>
  /\ feeSetting \in FeeSettings
  /\ before = [wallets |-> InitWallets, transactions |-> <<>>,
               adminProfits |-> <<>>, ledger |-> <<>>]
  /\ last = Idle
  /\ nchanges = 0
  /\ probe = NoProbe
  /\ procs = <<>>

\* a request can start: none is being served and the bound is not reached
Ready == last = Idle /\ nchanges < MaxChanges

\* one request served from start to end: o is its outcome
Serve(req, o) ==
  /\ wallets' = o.db.wallets
  /\ transactions' = o.db.transactions
  /\ adminProfits' = o.db.adminProfits
  /\ ledger' = o.db.ledger
  /\ before' = DB
  /\ last' = [req |-> req,
              out |-> [code |-> o.code, opened |-> o.opened, committed |-> o.committed,
                       status |-> o.status,
                       fee |-> o.fee, fromId |-> o.fromId, toId |-> o.toId,
                       requiresLedgerUpdate |-> o.requiresLedgerUpdate,
                       details |-> o.details]]
  /\ nchanges' = IF o.db # DB THEN nchanges + 1 ELSE nchanges
  /\ UNCHANGED <<feeSetting, probe, procs>>

\* a wallet transfer of a signed-in user
WalletTransfer ==
  /\ Ready
  /\ \E user \in Users, fromType \in Types, toType \in Types \cup {OtherType},
        amount \in Amounts,
        currencyOk \in BOOLEAN, rl \in BOOLEAN, dbFails \in BOOLEAN :
       \* without currency data neither rl nor dbFails is ever consulted
       /\ currencyOk \/ (~rl /\ ~dbFails)
       /\ LET req == Request("createTransfer", user, "wallet", fromType, toType, amount,
                             NoUser, Currency)
          IN Serve(req, createTransfer(DB, req, FeePercentage(feeSetting),
                                       currencyOk, rl, dbFails))

\* a client transfer of a signed-in user
ClientTransfer ==
  /\ Ready
  /\ \E user \in Users, fromType \in Types, amount \in Amounts,
        clientId \in Users \cup {NoUser, Ghost},
        currencyOk \in BOOLEAN, rl \in BOOLEAN, dbFails \in BOOLEAN :
       /\ currencyOk \/ (~rl /\ ~dbFails)
       /\ LET req == Request("createTransfer", user, "client", fromType, fromType, amount,
                             clientId, Currency)
          IN Serve(req, createTransfer(DB, req, FeePercentage(feeSetting),
                                       currencyOk, rl, dbFails))

\* a request the handler stops before it reads a wallet: no session user, a
\* session user without a row, or the placeholder as target currency
EarlyRequest ==
  /\ Ready
  /\ \E user \in Users \cup {NoUser, Ghost}, transferType \in {"wallet", "client"},
        toCurrency \in {Currency, Placeholder} :
       /\ user \notin Users \/ toCurrency = Placeholder
       /\ LET req == Request("createTransfer", user, transferType, "FIAT", "SPOT", Unit,
                             IF transferType = "client" THEN "u2" ELSE NoUser, toCurrency)
          IN Serve(req, createTransfer(DB, req, FeePercentage(feeSetting),
                                       TRUE, FALSE, FALSE))

InternalTransfer ==
  /\ Ready
  /\ \E fromUserId \in Users \cup {Ghost}, toUserId \in Users, amount \in Amounts,
        currencyOk \in BOOLEAN, dbFails \in BOOLEAN :
       \* a missing currency and a failing insert end the transaction alike
       /\ currencyOk \/ ~dbFails
       /\ LET req == Request("processInternalTransfer", fromUserId, "internal", "ECO", "ECO",
                             amount, toUserId, Currency)
          IN Serve(req, processInternalTransfer(DB, req, FeePercentage(feeSetting),
                                                currencyOk, dbFails))

\* the response (the returned body or the thrown error) goes out and the
\* request is over
Reply ==
  /\ last # Idle
  /\ last' = Idle
  /\ before' = DB
  /\ UNCHANGED <<wallets, transactions, adminProfits, ledger, feeSetting, nchanges,
                 probe, procs>>

Next == WalletTransfer \/ ClientTransfer \/ EarlyRequest \/ InternalTransfer \/ Reply

Spec == Init /\ [][Next]_vars

\* ------------------------------------- the per-chain deduction on its own
\* the chain maps a wallet row can hold: no map, or balances for the first n chains
ChainMaps ==
  {NullAddress} \cup
  UNION { { Stringify([k \in 1..n |-> Entry(Chains[k], "0x", "mainnet", f[k] * Unit)]) :
              f \in [1..n -> 0..MaxChain] } : n \in 0..Len(Chains) }

InitDeduct ==
  /\ wallets = InitWallets
  /\ transactions = <<>>
  /\ adminProfits = <<>>
  /\ ledger = <<>>
  /\ feeSetting = 0
  /\ before = [wallets |-> InitWallets, transactions |-> <<>>,
               adminProfits |-> <<>>, ledger |-> <<>>]
  /\ last = Idle
  /\ nchanges = 0
  /\ procs = <<>>
  /\ \E address \in ChainMaps, amount \in Amounts :
       probe = [NoProbe EXCEPT !.address = address, !.amount = amount]

\* deductFromEcoWallet(wallet, amount, currency, t) is called
Deduct ==
  /\ ~probe.done
  /\ probe' = [probe EXCEPT
                 !.done = TRUE,
                 !.result = deductFromEcoWallet(1, [address |-> probe.address],
                                                probe.amount, Currency)]
  /\ UNCHANGED <<wallets, transactions, adminProfits, ledger, feeSetting, before, last,
                 nchanges, procs>>

NextDeduct == Deduct

SpecDeduct == InitDeduct /\ [][NextDeduct]_vars

\* ------------------------------------------ the per-chain credit on its own
\* the deduction-detail lists handed to addToEcoWallet: up to two details, each
\* naming a chain and an amount
DetailLists ==
  LET detail == {[chain |-> Chains[c], amount |-> a * Unit] :
                   c \in 1..Len(Chains), a \in 0..MaxChain}
  IN {<<>>} \cup {<<d>> : d \in detail} \cup {<<d, e>> : d \in detail, e \in detail}

InitCredit ==
  /\ wallets = InitWallets
  /\ transactions = <<>>
  /\ adminProfits = <<>>
  /\ ledger = <<>>
  /\ feeSetting = 0
  /\ before = [wallets |-> InitWallets, transactions |-> <<>>,
               adminProfits |-> <<>>, ledger |-> <<>>]
  /\ last = Idle
  /\ nchanges = 0
  /\ procs = <<>>
  /\ \E address \in ChainMaps, details \in DetailLists :
       probe = [address |-> address, details |-> details, done |-> FALSE,
                result |-> [address |-> NullAddress, ledger |-> <<>>]]

\* addToEcoWallet(wallet, deductionDetails, currency, t) is called
Credit ==
  /\ ~probe.done
  /\ probe' = [probe EXCEPT
                 !.done = TRUE,
                 !.result = addToEcoWallet(1, [address |-> probe.address],
                                           probe.details, Currency)]
  /\ UNCHANGED <<wallets, transactions, adminProfits, ledger, feeSetting, before, last,
                 nchanges, procs>>

NextCredit == Credit

SpecCredit == InitCredit /\ [][NextCredit]_vars

\* ------------------------------------------------ the fee on its own
\* performTransaction's fee and net amount for every percentage the setting
\* can hold, the absent setting (-1) included
\* const targetReceiveAmount = parsedAmount - transferFeeAmount
targetReceiveAmount(parsedAmount, transferFeeAmount) == parsedAmount - transferFeeAmount

InitFee ==
  /\ wallets = InitWallets
  /\ transactions = <<>>
  /\ adminProfits = <<>>
  /\ ledger = <<>>
  /\ feeSetting \in (0 - 1)..PctDenom
  /\ before = [wallets |-> InitWallets, transactions |-> <<>>,
               adminProfits |-> <<>>, ledger |-> <<>>]
  /\ last = Idle
  /\ nchanges = 0
  /\ procs = <<>>
  /\ \E amount \in Amounts :
       probe = [amount |-> amount, done |-> FALSE, fee |-> 0, net |-> 0]

\* performTransaction, lines 376-387, is run
ComputeFee ==
  /\ ~probe.done
  /\ probe' = [probe EXCEPT
                 !.done = TRUE,
                 !.fee = calculateTransferFee(probe.amount, FeePercentage(feeSetting)),
                 !.net = targetReceiveAmount(
                           probe.amount,
                           calculateTransferFee(probe.amount, FeePercentage(feeSetting)))]
  /\ UNCHANGED <<wallets, transactions, adminProfits, ledger, feeSetting, before, last,
                 nchanges, procs>>

NextFee == ComputeFee

SpecFee == InitFee /\ [][NextFee]_vars

\* ------------------------------------------------ the email notification
\* the default handler with the step after performTransaction: probe.mail is
\* "none" until sendTransferEmails was called, then "sent" or "failed"
NoMail == [mail |-> "none"]

InitNotify ==
  /\ wallets = InitWallets
  /\ transactions = <<>>
  /\ adminProfits = <<>>
  /\ ledger = <<>>
  /\ feeSetting \in FeeSettings
  /\ before = [wallets |-> InitWallets, transactions |-> <<>>,
               adminProfits |-> <<>>, ledger |-> <<>>]
  /\ last = Idle
  /\ nchanges = 0
  /\ probe = NoMail
  /\ procs = <<>>

\* a notifier that lets its failure reach the caller
sendTransferEmails_Throws(mailFails) == [sent |-> ~mailFails, threw |-> mailFails]

\* sendTransferEmails(user, toUser, fromWallet, toWallet, amount, transaction):
\* mailFails is whether the mail service fails; the failure stays inside
sendTransferEmails(mailFails) == [sent |-> ~mailFails, threw |-> FALSE]

\* performTransaction has returned and transferType === "client" holds: the
\* handler stands before sendTransferEmails
MailDue ==
  /\ last # Idle
  /\ last.out.code = 200
  /\ last.req.transferType = "client"
  /\ probe.mail = "none"

\* await sendTransferEmails(...); an error it throws is the request's answer
SendEmails ==
  /\ MailDue
  /\ \E mailFails \in BOOLEAN :
       /\ probe' = [mail |-> IF sendTransferEmails(mailFails).sent THEN "sent" ELSE "failed"]
       /\ last' = [last EXCEPT !.out.code = IF sendTransferEmails(mailFails).threw
                                            THEN 500 ELSE @]
  /\ UNCHANGED <<wallets, transactions, adminProfits, ledger, feeSetting, before,
                 nchanges, procs>>

\* the handler returns its body or its error goes out
Return ==
  /\ last # Idle
  /\ ~MailDue
  /\ last' = Idle
  /\ before' = DB
  /\ probe' = NoMail
  /\ UNCHANGED <<wallets, transactions, adminProfits, ledger, feeSetting, nchanges, procs>>

NextNotify == WalletTransfer \/ ClientTransfer \/ SendEmails \/ Return

SpecNotify == InitNotify /\ [][NextNotify]_vars

\* ------------------------------------------- requests in flight at once
\* createTransfer requests of u1 that debit the FIAT wallet, each one advancing
\* from one await of the handler to the next
NoRow == NewWallet(NoUser, Currency, "none")

NotStarted == [pc |-> "start", req |-> NoRequest, fromId |-> 0, from |-> NoRow,
               toId |-> 0, to |-> NoRow, rl |-> FALSE, code |-> 0, committed |-> FALSE]

InitConc ==
  /\ wallets = InitWallets
  /\ transactions = <<>>
  /\ adminProfits = <<>>
  /\ ledger = <<>>
  /\ feeSetting \in FeeSettings
  /\ before = [wallets |-> InitWallets, transactions |-> <<>>,
               adminProfits |-> <<>>, ledger |-> <<>>]
  /\ last = Idle
  /\ nchanges = 0
  /\ probe = NoProbe
  /\ procs = [p \in Procs |-> NotStarted]

\* the owner and the type of the destination wallet a request asks for
DestOwner(req) == IF req.transferType = "client" THEN req.clientId ELSE req.user
DestType(req) == IF req.transferType = "client" THEN req.fromType ELSE req.toType

\* the handler up to models.wallet.findOne for the source wallet
ReadSource(p) ==
  /\ procs[p].pc = "start"
  /\ \E transferType \in {"wallet", "client"}, toType \in validTransfers("FIAT"),
        amount \in {a \in Amounts : a > 0}, rl \in BOOLEAN :
       LET req == Request("createTransfer", "u1", transferType, "FIAT",
                          IF transferType = "client" THEN "FIAT" ELSE toType, amount,
                          IF transferType = "client" THEN "u2" ELSE NoUser, Currency)
           fromId == FindWallet(wallets, req.user, req.fromCurrency, req.fromType)
       IN /\ transferType = "client" => toType = "SPOT"
          /\ fromId # 0
          /\ procs' = [procs EXCEPT ![p] = [@ EXCEPT !.pc = "find", !.req = req,
                                                     !.fromId = fromId,
                                                     !.from = wallets[fromId],
                                                     !.rl = rl]]
  /\ UNCHANGED <<wallets, transactions, adminProfits, ledger, feeSetting, before, last,
                 nchanges, probe>>

\* models.wallet.findOne for the destination wallet
FindDest(p) ==
  /\ procs[p].pc = "find"
  /\ LET toId == FindWallet(wallets, DestOwner(procs[p].req), procs[p].req.toCurrency,
                            DestType(procs[p].req))
     IN procs' = [procs EXCEPT ![p] =
                    IF toId = 0 THEN [@ EXCEPT !.pc = "create"]
                    ELSE [@ EXCEPT !.pc = "transact", !.toId = toId, !.to = wallets[toId]]]
  /\ UNCHANGED <<wallets, transactions, adminProfits, ledger, feeSetting, before, last,
                 nchanges, probe>>

\* models.wallet.create for the destination wallet that was not found
CreateDest(p) ==
  /\ procs[p].pc = "create"
  /\ wallets' = Append(wallets, NewWallet(DestOwner(procs[p].req), procs[p].req.toCurrency,
                                          DestType(procs[p].req)))
  /\ procs' = [procs EXCEPT ![p] = [@ EXCEPT !.pc = "transact",
                                             !.toId = Len(wallets) + 1,
                                             !.to = NewWallet(DestOwner(procs[p].req),
                                                              procs[p].req.toCurrency,
                                                              DestType(procs[p].req))]]
  /\ UNCHANGED <<transactions, adminProfits, ledger, feeSetting, before, last,
                 nchanges, probe>>

\* what the rest of the handler does with the rows it holds: the balance check
\* and then performTransaction, whose transaction the database runs on its own
Settled(p) ==
  IF procs[p].from.balance < procs[p].req.amount
  THEN Failed(DB, 400, procs[p].fromId, procs[p].toId)
  ELSE performTransaction(DB, procs[p].req, procs[p].fromId, procs[p].toId,
                          procs[p].from, procs[p].to, FeePercentage(feeSetting),
                          procs[p].rl, FALSE)

Settle(p) ==
  /\ procs[p].pc = "transact"
  /\ wallets' = Settled(p).db.wallets
  /\ transactions' = Settled(p).db.transactions
  /\ adminProfits' = Settled(p).db.adminProfits
  /\ ledger' = Settled(p).db.ledger
  /\ procs' = [procs EXCEPT ![p] = [@ EXCEPT !.pc = "done", !.code = Settled(p).code,
                                             !.committed = Settled(p).committed]]
  /\ UNCHANGED <<feeSetting, before, last, nchanges, probe>>

NextConc ==
  \E p \in Procs : ReadSource(p) \/ FindDest(p) \/ CreateDest(p) \/ Settle(p)

SpecConc == InitConc /\ [][NextConc]_vars

\* ------------------------- an ECO client transfer across two chains
\* u1's ECO wallet holds 30 on chainA and 80 on chainB; u2's ECO wallet holds
\* any chain map, its aggregate balance being the map's total
RECURSIVE SumBalances(_)
SumBalances(entries) ==
  IF entries = <<>> THEN 0 ELSE Head(entries).balance + SumBalances(Tail(entries))

TwoChainWallets(address) ==
  << [userId |-> "u1", currency |-> Currency, type |-> "ECO", balance |-> 110 * Unit,
      address |-> Stringify(<<Entry("chainA", "0xa1", "mainnet", 30 * Unit),
                              Entry("chainB", "0xb1", "mainnet", 80 * Unit)>>)],
     [userId |-> "u2", currency |-> Currency, type |-> "ECO",
      balance |-> SumBalances(parseAddresses(address)), address |-> address] >>

InitTwoChain ==
  /\ \E address \in ChainMaps :
       /\ wallets = TwoChainWallets(address)
       /\ before = [wallets |-> TwoChainWallets(address), transactions |-> <<>>,
                    adminProfits |-> <<>>, ledger |-> <<>>]
  /\ transactions = <<>>
  /\ adminProfits = <<>>
  /\ ledger = <<>>
  /\ feeSetting \in FeeSettings
  /\ last = Idle
  /\ nchanges = 0
  /\ probe = NoProbe
  /\ procs = <<>>

\* u1 sends 100 to u2 as a client transfer from the ECO wallet
TwoChainTransfer ==
  /\ Ready
  /\ \E currencyOk \in BOOLEAN, rl \in BOOLEAN, dbFails \in BOOLEAN :
       /\ currencyOk \/ (~rl /\ ~dbFails)
       /\ LET req == Request("createTransfer", "u1", "client", "ECO", "ECO", 100 * Unit,
                             "u2", Currency)
          IN Serve(req, createTransfer(DB, req, FeePercentage(feeSetting),
                                       currencyOk, rl, dbFails))

NextTwoChain == TwoChainTransfer \/ Reply

SpecTwoChain == InitTwoChain /\ [][NextTwoChain]_vars

\* ------------------------------------------- an amount that is no number
\* parseFloat of a text that is no number gives NaN, which stands here as one
\* value outside the amounts; every comparison with NaN is false, and every
\* sum, difference and product with NaN is NaN
NotANumber == -999999

\* the ledger records handleEcoClientBalanceTransfer writes for NaN: its loop
\* never sees remainingAmount <= 0, so every chain gets a pair of records
NaNLedger(sorted, fromId, toId, currency) ==
  [k \in 1..(2 * Len(sorted)) |->
     LedgerRecord(IF k % 2 = 1 THEN fromId ELSE toId, currency,
                  sorted[(k + 1) \div 2].chain, NotANumber)]

\* performTransaction for NaN: neither balance check rejects it, the
\* transaction opens and the balances to write are NaN. stored: the database
\* takes NaN for a number column; otherwise the first update throws and the
\* transaction rolls back
performTransactionNaN(db, req, fromId, toId, rl, stored) ==
  IF ~stored
  THEN Outcome(db, 500, TRUE, FALSE, "NONE", NotANumber, fromId, toId, rl, <<>>)
  ELSE Outcome(
         RecordTransfer(
           [db EXCEPT
              !.wallets = [id \in 1..Len(db.wallets) |->
                             IF id = fromId \/ (id = toId /\ ~rl)
                             THEN [db.wallets[id] EXCEPT !.balance = NotANumber]
                             ELSE db.wallets[id]],
              !.ledger = IF ~rl /\ req.fromType = "ECO" /\ req.transferType = "client"
                         THEN @ \o NaNLedger(getSortedChainBalances(
                                                parseAddresses(db.wallets[fromId].address)),
                                              fromId, toId, req.fromCurrency)
                         ELSE @],
           req.user, IF req.transferType = "client" THEN req.clientId ELSE req.user,
           fromId, toId, NotANumber, NotANumber, req.fromCurrency, req.toCurrency,
           req.fromType, req.toType, IF rl THEN "PENDING" ELSE "COMPLETED"),
         200, TRUE, TRUE, IF rl THEN "PENDING" ELSE "COMPLETED", NotANumber,
         fromId, toId, rl, <<>>)

\* the default handler from the balance check on, for NaN
CheckedNaN(db, req, fromId, r, currencyOk, rl, stored) ==
  IF r.code # 0 THEN Failed([db EXCEPT !.wallets = r.wallets], r.code, fromId, 0)
  ELSE IF ~currencyOk THEN Failed([db EXCEPT !.wallets = r.wallets], 400, fromId, r.toId)
  ELSE performTransactionNaN([db EXCEPT !.wallets = r.wallets], req, fromId, r.toId,
                             rl, stored)

\* the default handler (createTransfer) for a request whose amount is no number
createTransferNaN(db, req, currencyOk, rl, stored) ==
  IF req.user = NoUser THEN Failed(db, 401, 0, 0)
  ELSE IF req.toCurrency = Placeholder THEN Failed(db, 400, 0, 0)
  ELSE IF ~UserExists(req.user) THEN Failed(db, 404, 0, 0)
  ELSE IF FindWallet(db.wallets, req.user, req.fromCurrency, req.fromType) = 0
  THEN Failed(db, 404, 0, 0)
  ELSE CheckedNaN(db, req, FindWallet(db.wallets, req.user, req.fromCurrency, req.fromType),
                  IF req.transferType = "client"
                  THEN handleClientTransfer(db.wallets, req.clientId, req.fromCurrency,
                                            req.fromType)
                  ELSE handleWalletTransfer(db.wallets, req.user, req.fromType, req.toType,
                                            req.toCurrency),
                  currencyOk, rl, stored)

\* the check of the request body against the schema the route declares
\* (metadata.requestBody: amount is a required number), made before the
\* handler is called
validateSchema_AcceptsAll(req) == TRUE

validateSchema(req) == req.amount # NotANumber

\* the route: the body is validated, then the handler runs
Route(db, req, feePct, currencyOk, rl, dbFails) ==
  IF ~validateSchema(req) THEN Failed(db, 400, 0, 0)
  ELSE IF req.amount = NotANumber
  THEN createTransferNaN(db, req, currencyOk, rl, ~dbFails)
  ELSE createTransfer(db, req, feePct, currencyOk, rl, dbFails)

RouteWalletTransfer ==
  /\ Ready
  /\ \E user \in Users, fromType \in Types, toType \in Types \cup {OtherType},
        amount \in Amounts \cup {NotANumber},
        currencyOk \in BOOLEAN, rl \in BOOLEAN, dbFails \in BOOLEAN :
       /\ currencyOk \/ (~rl /\ ~dbFails)
       /\ LET req == Request("createTransfer", user, "wallet", fromType, toType, amount,
                             NoUser, Currency)
          IN Serve(req, Route(DB, req, FeePercentage(feeSetting), currencyOk, rl, dbFails))

RouteClientTransfer ==
  /\ Ready
  /\ \E user \in Users, fromType \in Types, amount \in Amounts \cup {NotANumber},
        clientId \in Users \cup {NoUser, Ghost},
        currencyOk \in BOOLEAN, rl \in BOOLEAN, dbFails \in BOOLEAN :
       /\ currencyOk \/ (~rl /\ ~dbFails)
       /\ LET req == Request("createTransfer", user, "client", fromType, fromType, amount,
                             clientId, Currency)
          IN Serve(req, Route(DB, req, FeePercentage(feeSetting), currencyOk, rl, dbFails))

NextRoute == RouteWalletTransfer \/ RouteClientTransfer \/ Reply

SpecRoute == Init /\ [][NextRoute]_vars

\* ------------------------------------- the native deposit watcher
\* EVMDeposits.watchNativeDeposits: probe holds the locals of one call and its
\* surroundings, procs the invocations of verifyDeposits, each at one of its
\* awaits ("fetching", "details", "storing") or not running ("idle")
WatchedAddress == "0xwatched"
OtherAddress == "0xother"

\* the transactions the chain can show for the address
Deposits(now) ==
  {[to |-> to, status |-> status, timestamp |-> now] :
     to \in {WatchedAddress, OtherAddress}, status \in {0, 1}}

NotWatching ==
  [started |-> FALSE, depositFound |-> FALSE, startTime |-> 0, now |-> 0,
   cleared |-> FALSE, stored |-> 0, txs |-> <<>>]

InitWatch ==
  /\ wallets = InitWallets
  /\ transactions = <<>>
  /\ adminProfits = <<>>
  /\ ledger = <<>>
  /\ feeSetting = 0
  /\ before = [wallets |-> InitWallets, transactions |-> <<>>,
               adminProfits |-> <<>>, ledger |-> <<>>]
  /\ last = Idle
  /\ nchanges = 0
  /\ probe = NotWatching
  /\ procs = [p \in Procs |-> [pc |-> "idle"]]

WatchFrame ==
  UNCHANGED <<wallets, transactions, adminProfits, ledger, feeSetting, before, last,
              nchanges>>

\* the test of the loop of verifyDeposits
Matches(tx, startTime) ==
  /\ tx.to = WatchedAddress
  /\ tx.timestamp > startTime
  /\ tx.status = 1

\* a second passes
Tick ==
  /\ probe.now < MaxTime
  /\ probe' = [probe EXCEPT !.now = @ + 1]
  /\ UNCHANGED procs
  /\ WatchFrame

\* a transaction appears on the chain
Deposit ==
  /\ Len(probe.txs) < MaxDeposits
  /\ \E tx \in Deposits(probe.now) : probe' = [probe EXCEPT !.txs = Append(@, tx)]
  /\ UNCHANGED procs
  /\ WatchFrame

\* watchNativeDeposits is called: startTime is taken, the immediate
\* verifyDeposits() runs up to its fetch, the interval and the timer are set
StartWatch ==
  /\ ~probe.started
  /\ probe' = [probe EXCEPT !.started = TRUE, !.startTime = probe.now]
  /\ procs' = [procs EXCEPT ![1].pc = "fetching"]
  /\ WatchFrame

\* the interval fires: verifyDeposits starts, and returns at once when
\* depositFound is set
IntervalCheck(p) ==
  /\ probe.started
  /\ ~probe.cleared
  /\ procs[p].pc = "idle"
  /\ ~probe.depositFound
  /\ procs' = [procs EXCEPT ![p].pc = "fetching"]
  /\ UNCHANGED probe
  /\ WatchFrame

\* fetchEcosystemTransactions resolves and the loop runs up to its first
\* match, or rejects
FetchReturns(p) ==
  /\ procs[p].pc = "fetching"
  /\ \E fails \in BOOLEAN :
       IF ~fails /\ \E k \in 1..Len(probe.txs) : Matches(probe.txs[k], probe.startTime)
       THEN /\ probe' = [probe EXCEPT !.depositFound = TRUE]
            /\ procs' = [procs EXCEPT ![p].pc = "details"]
       ELSE /\ procs' = [procs EXCEPT ![p].pc = "idle"]
            /\ UNCHANGED probe
  /\ WatchFrame

\* createTransactionDetails resolves and storeAndBroadcastTransaction is
\* invoked, or it throws and the catch block runs
DetailsReturn(p) ==
  /\ procs[p].pc = "details"
  /\ \E throws \in BOOLEAN :
       IF throws
       THEN /\ probe' = [probe EXCEPT !.startTime = probe.now]
            /\ procs' = [procs EXCEPT ![p].pc = "idle"]
       ELSE /\ probe' = [probe EXCEPT !.stored = @ + 1]
            /\ procs' = [procs EXCEPT ![p].pc = "storing"]
  /\ WatchFrame

\* storeAndBroadcastTransaction resolves or throws; startTime is taken anew
StoreReturns(p) ==
  /\ procs[p].pc = "storing"
  /\ probe' = [probe EXCEPT !.startTime = probe.now]
  /\ procs' = [procs EXCEPT ![p].pc = "idle"]
  /\ WatchFrame

\* checkDepositFound with its test inverted
CheckDepositFound_Inverted ==
  /\ probe.started
  /\ ~probe.cleared
  /\ probe' = [probe EXCEPT !.cleared = ~probe.depositFound]
  /\ UNCHANGED procs
  /\ WatchFrame

\* checkDepositFound: clears the interval once depositFound is set, else it
\* sets its timer again
CheckDepositFound ==
  /\ probe.started
  /\ ~probe.cleared
  /\ probe' = [probe EXCEPT !.cleared = probe.depositFound]
  /\ UNCHANGED procs
  /\ WatchFrame

NextWatch ==
  \/ Tick
  \/ Deposit
  \/ StartWatch
  \/ CheckDepositFound
  \/ \E p \in Procs : IntervalCheck(p) \/ FetchReturns(p) \/ DetailsReturn(p) \/ StoreReturns(p)

SpecWatch == InitWatch /\ [][NextWatch]_vars

\* the timer of checkDepositFound is set again by every run that does not
\* clear the interval, and the event loop runs every timer that is due
SpecWatchFair == InitWatch /\ [][NextWatch]_vars /\ WF_vars(CheckDepositFound)

\* ============================================================ properties
Served == last # Idle

\* a wallet's aggregate balance and chain map in a table; a row that does not
\* exist yet counts as the row its creation makes
Bal(ws, id) == IF id \in 1..Len(ws) THEN ws[id].balance ELSE 0
Addr(ws, id) == IF id \in 1..Len(ws) THEN ws[id].address ELSE NullAddress

RECURSIVE SumAmounts(_)
SumAmounts(details) ==
  IF details = <<>> THEN 0 ELSE Head(details).amount + SumAmounts(Tail(details))

\* the fee of the request being answered, from the configured percentage
ExpectedFee == (last.req.amount * FeePercentage(feeSetting)) \div PctDenom

\* the pairs the route table is said to allow
ClaimedPairs ==
  { <<"FIAT", "SPOT">>, <<"FIAT", "ECO">>, <<"SPOT", "FIAT">>, <<"SPOT", "ECO">>,
    <<"ECO", "FIAT">>, <<"ECO", "SPOT">>, <<"ECO", "FUTURES">>, <<"FUTURES", "ECO">> }

\* C1: every createTransfer that commits with status COMPLETED lowers the source
\* wallet's aggregate balance by exactly the amount and raises the destination
\* wallet's by exactly amount - fee (stated for a positive amount, two distinct
\* wallets and a fee that is a whole number of smallest units, so that neither
\* rounding nor a self-transfer is involved).
C1_GrossAndNet ==
  (Served /\ last.req.op = "createTransfer" /\ last.out.committed
     /\ last.out.status = "COMPLETED"
     /\ last.req.amount > 0 /\ last.out.fromId # last.out.toId
     /\ ExpectedFee % Unit = 0)
  => /\ Bal(before.wallets, last.out.fromId) - Bal(wallets, last.out.fromId)
          = last.req.amount
     /\ Bal(wallets, last.out.toId) - Bal(before.wallets, last.out.toId)
          = last.req.amount - ExpectedFee

\* C2: a request that fails after its atomic transaction was opened leaves every
\* wallet balance, every chain map, the private ledger, the transfer records and
\* the admin-profit records as they were before the request (stated for a
\* positive amount between two distinct wallets).
C2_RollbackLeavesNothing ==
  (Served /\ last.out.opened /\ ~last.out.committed
     /\ last.req.amount > 0 /\ last.out.fromId # last.out.toId)
  => /\ \A id \in 1..Len(before.wallets) :
          /\ wallets[id].balance = before.wallets[id].balance
          /\ wallets[id].address = before.wallets[id].address
     /\ ledger = before.ledger
     /\ transactions = before.transactions
     /\ adminProfits = before.adminProfits

\* C3: a createTransfer whose source balance is less than the amount fails with
\* the 400 insufficient-balance error and leaves the whole persisted state as it
\* was: no wallet row created, no balance changed, no record written.
C3_InsufficientChangesNothing ==
  (Served /\ last.req.op = "createTransfer"
     /\ last.out.fromId # 0 /\ last.out.toId # 0
     /\ Bal(before.wallets, last.out.fromId) < last.req.amount)
  => /\ last.out.code = 400
     /\ ~last.out.committed
     /\ DB = before

\* an ECO wallet table in which every aggregate balance is the sum of the
\* wallet's chain balances
ChainsAgree(ws) ==
  \A id \in 1..Len(ws) :
    ws[id].type = "ECO"
      => ws[id].balance = SumBalances(parseAddresses(ws[id].address))

\* C5: every ECO wallet's aggregate balance equals the sum of the balances in
\* its chain map in every reachable state: a request with a positive amount
\* served in a state where the equality holds leaves it holding.
C5_AggregateIsChainSum ==
  (Served /\ last.req.amount > 0 /\ ChainsAgree(before.wallets))
  => ChainsAgree(wallets)

\* C6: a wallet-to-wallet request of a signed-in user, for a positive amount,
\* whose (fromType, toType) is not one of the eight allowed pairs fails with a
\* 400 validation error, and nothing is created or written.
C6_InvalidRouteIs400 ==
  (Served /\ last.req.op = "createTransfer" /\ last.req.transferType = "wallet"
     /\ last.req.user \in Users /\ last.req.toCurrency # Placeholder
     /\ last.req.amount > 0 /\ last.req.toType \in Types
     /\ <<last.req.fromType, last.req.toType>> \notin ClaimedPairs)
  => /\ last.out.code = 400
     /\ ~last.out.committed
     /\ DB = before

\* C7: a transfer that commits adds exactly two transfer records, an
\* OUTGOING_TRANSFER with the gross amount and the fee and an INCOMING_TRANSFER
\* with amount - fee and fee 0, both with the same fromWallet, toWallet,
\* currencies and status; a transfer that does not commit adds none.
C7_TwoRecords ==
  Served =>
    IF last.out.committed
    THEN LET n == Len(before.transactions)
         IN /\ Len(transactions) = n + 2
            /\ SubSeq(transactions, 1, n) = before.transactions
            /\ transactions[n + 1].type = "OUTGOING_TRANSFER"
            /\ transactions[n + 1].amount = last.req.amount
            /\ transactions[n + 1].fee = ExpectedFee
            /\ transactions[n + 2].type = "INCOMING_TRANSFER"
            /\ transactions[n + 2].amount = last.req.amount - ExpectedFee
            /\ transactions[n + 2].fee = 0
            /\ \A k \in {n + 1, n + 2} :
                 /\ transactions[k].fromWallet = last.out.fromId
                 /\ transactions[k].toWallet = last.out.toId
                 /\ transactions[k].fromCurrency = last.req.fromCurrency
                 /\ transactions[k].toCurrency = last.req.toCurrency
                 /\ transactions[k].status = last.out.status
    ELSE transactions = before.transactions

\* a transfer committed as PENDING with a fee: two PENDING records were added
C7_Witness ==
  /\ Served /\ last.out.committed /\ ExpectedFee > 0
  /\ last.out.status = "PENDING"
  /\ Len(transactions) = Len(before.transactions) + 2
  /\ transactions[Len(transactions)].status = "PENDING"

\* C8: a committed transfer with a fee above 0 adds exactly one admin-profit
\* record, which names the id of the transfer's OUTGOING_TRANSFER record; a
\* committed transfer with fee 0 adds none.
C8_ProfitIffFee ==
  (Served /\ last.out.committed) =>
    LET n == Len(before.adminProfits)
        outgoing == transactions[Len(before.transactions) + 1]
    IN /\ ExpectedFee > 0 =>
            /\ Len(adminProfits) = n + 1
            /\ SubSeq(adminProfits, 1, n) = before.adminProfits
            /\ outgoing.type = "OUTGOING_TRANSFER"
            /\ adminProfits[n + 1].transactionId = outgoing.id
            /\ adminProfits[n + 1].amount = ExpectedFee
       /\ ExpectedFee = 0 => adminProfits = before.adminProfits

\* a wallet transfer committed with a fee: one profit record was added
C8_Witness ==
  /\ Served /\ last.out.committed /\ ExpectedFee > 0
  /\ last.req.transferType = "wallet"
  /\ Len(adminProfits) = Len(before.adminProfits) + 1
  /\ adminProfits[Len(adminProfits)].transactionId = Len(before.transactions) + 1

\* C10: the status of a committed createTransfer is PENDING exactly when
\* requiresPrivateLedgerUpdate returned true and COMPLETED otherwise; a PENDING
\* transfer lowers the source wallet's aggregate balance by the full amount and
\* leaves the destination wallet's aggregate balance and chain map unchanged
\* (stated for a positive amount).
C10_PendingFrame ==
  (Served /\ last.req.op = "createTransfer" /\ last.out.committed
     /\ last.req.amount > 0)
  => /\ last.out.status = (IF last.out.requiresLedgerUpdate THEN "PENDING" ELSE "COMPLETED")
     /\ last.out.status = "PENDING" =>
          /\ Bal(wallets, last.out.fromId)
               = Bal(before.wallets, last.out.fromId) - last.req.amount
          /\ Bal(wallets, last.out.toId) = Bal(before.wallets, last.out.toId)
          /\ Addr(wallets, last.out.toId) = Addr(before.wallets, last.out.toId)

\* the amounts of the first n requests in flight that committed
RECURSIVE CommittedDebits(_)
CommittedDebits(n) ==
  IF n = 0 THEN 0
  ELSE (IF procs[n].committed THEN procs[n].req.amount ELSE 0) + CommittedDebits(n - 1)

\* C4: when concurrent transfers that debit the same source wallet have all
\* ended, the wallet's aggregate balance is its initial balance minus the sum
\* of the amounts of the transfers that committed, and it is not negative.
C4_NoLostUpdate ==
  (\A p \in Procs : procs[p].pc = "done")
  => /\ wallets[1].balance = InitWallets[1].balance - CommittedDebits(NumProcs)
     /\ wallets[1].balance >= 0

\* the balance each chain held before the call being looked at
PriorBalance(chain) ==
  LET a == parseAddresses(probe.address)
  IN IF ChainIndex(a, chain) = 0 THEN 0 ELSE a[ChainIndex(a, chain)].balance

\* C9: when the per-chain deduction succeeds, the amounts of the returned
\* deduction details sum to exactly the requested amount, each is at most the
\* balance its chain held before, and no chain balance is negative afterwards.
C9_DetailsSumToAmount ==
  (probe.done /\ probe.result.ok)
  => /\ SumAmounts(probe.result.details) = probe.amount
     /\ \A k \in 1..Len(probe.result.details) :
          probe.result.details[k].amount <= PriorBalance(probe.result.details[k].chain)
     /\ \A k \in 1..Len(parseAddresses(probe.result.address)) :
          parseAddresses(probe.result.address)[k].balance >= 0

\* the private-ledger records the request being answered added
NewLedger == SubSeq(ledger, Len(before.ledger) + 1, Len(ledger))

\* the sum of the deltas the records of a list hold for one wallet
RECURSIVE SumDeltas(_, _)
SumDeltas(records, walletId) ==
  IF records = <<>> THEN 0
  ELSE (IF Head(records).walletId = walletId THEN Head(records).amount ELSE 0)
       + SumDeltas(Tail(records), walletId)

\* C11: a committed client transfer from an ECO wallet (positive amount, two
\* distinct wallets) always deducts the amount per chain from the source and
\* credits it per chain to the destination in the private ledger, and changes
\* both aggregate balances at once, whatever requiresPrivateLedgerUpdate
\* returned.
C11_EcoClientAlwaysImmediate ==
  (Served /\ last.req.op = "createTransfer" /\ last.req.transferType = "client"
     /\ last.req.fromType = "ECO" /\ last.out.committed
     /\ last.req.amount > 0 /\ last.out.fromId # last.out.toId)
  => /\ SumDeltas(NewLedger, last.out.fromId) = 0 - last.req.amount
     /\ SumDeltas(NewLedger, last.out.toId) = last.req.amount
     /\ Bal(wallets, last.out.fromId) = Bal(before.wallets, last.out.fromId) - last.req.amount
     /\ Bal(wallets, last.out.toId) > Bal(before.wallets, last.out.toId)

\* the balance a stored chain map holds for a chain, 0 when it has no entry
ChainBal(address, chain) ==
  LET a == parseAddresses(address)
  IN IF ChainIndex(a, chain) = 0 THEN 0 ELSE a[ChainIndex(a, chain)].balance

\* the chain and delta of the records of a list that belong to one wallet
RECURSIVE DeltasOf(_, _)
DeltasOf(records, walletId) ==
  IF records = <<>> THEN <<>>
  ELSE (IF Head(records).walletId = walletId
        THEN <<[chain |-> Head(records).chain, amount |-> Head(records).amount]>>
        ELSE <<>>) \o DeltasOf(Tail(records), walletId)

\* C12: an ECO client transfer of 100 from a source holding {chainA: 30,
\* chainB: 80} that commits as COMPLETED deducts 30 from chainA and then 70
\* from chainB; afterwards the destination's stored chain balances are higher
\* by 30 on chainA and by 70 on chainB, and the source's stored chain balances
\* are 0 on chainA and 10 on chainB.
C12_TwoChainDistribution ==
  (Served /\ last.out.committed /\ last.out.status = "COMPLETED")
  => /\ DeltasOf(NewLedger, last.out.fromId)
          = <<[chain |-> "chainA", amount |-> 0 - 30 * Unit],
              [chain |-> "chainB", amount |-> 0 - 70 * Unit]>>
     /\ ChainBal(wallets[last.out.toId].address, "chainA")
          = ChainBal(before.wallets[last.out.toId].address, "chainA") + 30 * Unit
     /\ ChainBal(wallets[last.out.toId].address, "chainB")
          = ChainBal(before.wallets[last.out.toId].address, "chainB") + 70 * Unit
     /\ ChainBal(wallets[last.out.fromId].address, "chainA") = 0
     /\ ChainBal(wallets[last.out.fromId].address, "chainB") = 10 * Unit

C14_FeeFormula ==
  probe.done =>
    /\ probe.fee * PctDenom
         = probe.amount * (IF feeSetting = 0 - 1 THEN 0 ELSE feeSetting)
    /\ probe.net = probe.amount - probe.fee
    /\ (feeSetting \in {0 - 1, 0}) => (probe.fee = 0 /\ probe.net = probe.amount)
    /\ \/ (0 <= probe.fee /\ probe.fee <= probe.amount)
       \/ (probe.amount <= probe.fee /\ probe.fee <= 0)

\* a fee strictly between 0 and the amount was computed
C14_Witness ==
  /\ probe.done
  /\ probe.amount > 0
  /\ 0 < probe.fee
  /\ probe.fee < probe.amount
  /\ probe.net = probe.amount - probe.fee

\* the source wallet of the request being answered, 0 when the caller has none
SourceId ==
  FindWallet(before.wallets, last.req.user, last.req.fromCurrency, last.req.fromType)

\* C15: a createTransfer that cannot resolve its parties fails with the code of
\* its class and changes nothing: 401 without an authenticated caller, 404 when
\* the caller has no source wallet, 400 when a client transfer names no
\* clientId, 404 when the named client does not exist; no transaction is
\* opened and wallets, ledger, transfer records and profit records stay as
\* they were.
C15_ResolutionFailures ==
  (Served /\ last.req.op = "createTransfer")
  => /\ (last.req.user = NoUser) => last.out.code = 401
     /\ (last.req.user \in Users /\ last.req.toCurrency # Placeholder /\ SourceId = 0)
          => last.out.code = 404
     /\ (last.req.user \in Users /\ last.req.toCurrency # Placeholder /\ SourceId # 0
           /\ last.req.transferType = "client" /\ last.req.clientId = NoUser)
          => last.out.code = 400
     /\ (last.req.user \in Users /\ last.req.toCurrency # Placeholder /\ SourceId # 0
           /\ last.req.transferType = "client" /\ last.req.clientId = Ghost)
          => last.out.code = 404
     /\ (\/ last.req.user = NoUser
         \/ SourceId = 0
         \/ (last.req.transferType = "client" /\ last.req.clientId \in {NoUser, Ghost}))
          => (~last.out.opened /\ ~last.out.committed /\ DB = before)

\* a client transfer from an existing source wallet to a client that does not
\* exist was answered
C15_Witness ==
  /\ Served
  /\ last.req.op = "createTransfer"
  /\ last.req.user \in Users
  /\ SourceId # 0
  /\ last.req.transferType = "client"
  /\ last.req.clientId = Ghost
  /\ last.out.code = 404

RecordsOf(walletId, chain) ==
  {k \in 1..Len(NewLedger) : NewLedger[k].walletId = walletId /\ NewLedger[k].chain = chain}

\* C17: a transfer that commits has, for each {chain, amount} of its deduction,
\* exactly one new private-ledger record of -amount for the source wallet on
\* that chain and exactly one of +amount for the destination wallet on that
\* chain, and every new record belongs to such a pair; a transfer that does not
\* commit leaves no new private-ledger record (stated for a positive amount
\* between two distinct wallets).
C17_LedgerMirrorsAtomically ==
  (Served /\ last.req.amount > 0 /\ last.out.fromId # last.out.toId)
  => IF last.out.committed
     THEN /\ \A i \in 1..Len(last.out.details) :
               /\ \E k \in RecordsOf(last.out.fromId, last.out.details[i].chain) :
                    /\ RecordsOf(last.out.fromId, last.out.details[i].chain) = {k}
                    /\ NewLedger[k].amount = 0 - last.out.details[i].amount
               /\ \E k \in RecordsOf(last.out.toId, last.out.details[i].chain) :
                    /\ RecordsOf(last.out.toId, last.out.details[i].chain) = {k}
                    /\ NewLedger[k].amount = last.out.details[i].amount
          /\ \A k \in 1..Len(NewLedger) :
               /\ NewLedger[k].walletId \in {last.out.fromId, last.out.toId}
               /\ \E j \in 1..Len(NewLedger) :
                    /\ NewLedger[j].chain = NewLedger[k].chain
                    /\ NewLedger[j].walletId # NewLedger[k].walletId
                    /\ NewLedger[j].amount = 0 - NewLedger[k].amount
     ELSE NewLedger = <<>>

\* C18: validation comes before wallet resolution and the balance check: a
\* wallet transfer of an authenticated caller, for a positive amount, between
\* two different types whose pair the route table does not hold fails with the invalid-route
\* validation error (400), whether or not the caller has the source wallet and
\* whatever its balance.
C18_RouteCheckedFirst ==
  (Served /\ last.req.op = "createTransfer" /\ last.req.transferType = "wallet"
     /\ last.req.user \in Users /\ last.req.toCurrency # Placeholder
     /\ last.req.amount > 0
     /\ last.req.fromType # last.req.toType
     /\ last.req.toType \notin validTransfers(last.req.fromType))
  => /\ last.out.code = 400
     /\ ~last.out.opened

\* the chain map handed to the deduction and the one it stores, in key order
ProbeBefore == parseAddresses(probe.address)
ProbeAfter == parseAddresses(probe.result.address)

\* the position in the chain map of the chain of the k-th deduction detail
DetailIndex(k) == ChainIndex(ProbeBefore, probe.result.details[k].chain)

\* C19: a deduction that returns its detail list went through the chain map in
\* key order: no detail names a chain whose balance was zero, every detail but
\* the last took its chain's whole balance and left it at 0, the details name
\* chains in the map's key order, and every chain after the one of the last
\* detail has the balance it had.
C19_GreedyInKeyOrder ==
  (probe.done /\ probe.result.ok)
  => LET details == probe.result.details
     IN /\ \A k \in 1..Len(details) :
             /\ DetailIndex(k) # 0
             /\ ProbeBefore[DetailIndex(k)].balance # 0
        /\ \A k \in 1..(Len(details) - 1) :
             /\ details[k].amount = ProbeBefore[DetailIndex(k)].balance
             /\ ProbeAfter[DetailIndex(k)].balance = 0
        /\ \A k \in 1..(Len(details) - 1) : DetailIndex(k) < DetailIndex(k + 1)
        /\ Len(ProbeAfter) = Len(ProbeBefore)
        /\ \A i \in 1..Len(ProbeBefore) :
             (Len(details) > 0 /\ i > DetailIndex(Len(details)))
               => ProbeAfter[i] = ProbeBefore[i]

\* a deduction over three chains: the first, at zero, was skipped, the second
\* was drained and the third completed the amount and kept a rest
C19_Witness ==
  /\ probe.done
  /\ probe.result.ok
  /\ Len(ProbeBefore) = Len(Chains)
  /\ ProbeBefore[1].balance = 0
  /\ Len(probe.result.details) = 2
  /\ DetailIndex(1) = 2
  /\ ProbeAfter[2].balance = 0
  /\ ProbeAfter[Len(Chains)].balance > 0

\* the total a detail list holds for one chain
RECURSIVE SumFor(_, _)
SumFor(details, chain) ==
  IF details = <<>> THEN 0
  ELSE (IF Head(details).chain = chain THEN Head(details).amount ELSE 0)
       + SumFor(Tail(details), chain)

\* the chains a detail list names
Named(details) == {details[k].chain : k \in 1..Len(details)}

\* C20: addToEcoWallet adds each {chain, amount} of the list to that chain's
\* balance; a chain the wallet had no entry for gets an entry with null
\* address and null network, counted from balance 0; the entries of the
\* chains the list does not name are as they were, and no other entry
\* appears; the total of the balances grows by the total of the list.
C20_CreditFrame ==
  probe.done
  => LET old == parseAddresses(probe.address)
         new == parseAddresses(probe.result.address)
     IN /\ \A c \in 1..Len(Chains) :
             ChainBal(probe.result.address, Chains[c])
               = ChainBal(probe.address, Chains[c]) + SumFor(probe.details, Chains[c])
        /\ \A i \in 1..Len(new) :
             \/ /\ i <= Len(old)
                /\ new[i].chain = old[i].chain
                /\ new[i].address = old[i].address
                /\ new[i].network = old[i].network
                /\ (old[i].chain \notin Named(probe.details)) => new[i] = old[i]
             \/ /\ i > Len(old)
                /\ new[i].chain \in Named(probe.details)
                /\ ChainIndex(old, new[i].chain) = 0
                /\ new[i].address = "null"
                /\ new[i].network = "null"
        /\ Len(new) >= Len(old)
        /\ \A c \in Named(probe.details) : ChainIndex(new, c) # 0
        /\ SumBalances(new) = SumBalances(old) + SumAmounts(probe.details)

\* a credit that raised a chain the wallet had, created one it had not, and
\* left a third alone
C20_Witness ==
  /\ probe.done
  /\ Len(parseAddresses(probe.address)) = 2
  /\ Len(parseAddresses(probe.result.address)) = Len(Chains)
  /\ Named(probe.details) = {Chains[2], Chains[Len(Chains)]}
  /\ ChainBal(probe.result.address, Chains[2]) > ChainBal(probe.address, Chains[2])
  /\ ChainBal(probe.result.address, Chains[Len(Chains)]) > 0
  /\ parseAddresses(probe.result.address)[1] = parseAddresses(probe.address)[1]

\* the sum of the aggregate balances of the rows of a wallet table
RECURSIVE SumWallets(_)
SumWallets(ws) == IF ws = <<>> THEN 0 ELSE Head(ws).balance + SumWallets(Tail(ws))

\* the sum of the fee amounts of the admin-profit records
RECURSIVE SumProfits(_)
SumProfits(ps) == IF ps = <<>> THEN 0 ELSE Head(ps).amount + SumProfits(Tail(ps))

\* C21: funds are conserved: a transfer that commits with status COMPLETED
\* leaves the sum of all wallets' aggregate balances plus the sum of all
\* admin-profit amounts equal to what it was before the transfer, and so does
\* any sequence of such transfers (stated for a positive amount, two distinct
\* wallets and a fee that is a whole number of smallest units).
C21_FundsConserved ==
  (Served /\ last.out.committed /\ last.out.status = "COMPLETED"
     /\ last.req.amount > 0 /\ last.out.fromId # last.out.toId
     /\ (last.out.fee % Unit) = 0)
  => SumWallets(wallets) + SumProfits(adminProfits)
       = SumWallets(before.wallets) + SumProfits(before.adminProfits)

\* C22: only a transfer with a strictly positive amount commits: a committed
\* transfer neither raises the source wallet's aggregate balance nor lowers
\* the destination wallet's (stated for two distinct wallets).
C22_PositiveAmountsOnly ==
  (Served /\ last.out.committed /\ last.out.fromId # last.out.toId)
  => /\ last.req.amount > 0
     /\ Bal(wallets, last.out.fromId) <= Bal(before.wallets, last.out.fromId)
     /\ Bal(wallets, last.out.toId) >= Bal(before.wallets, last.out.toId)

\* C23: in every committed transfer (stated for a positive amount) the source
\* wallet and the destination wallet are two different rows; a client
\* transfer naming the caller as client does not commit.
C23_DistinctWallets ==
  (Served /\ last.out.committed /\ last.req.amount > 0)
  => /\ last.out.fromId # last.out.toId
     /\ ~(last.req.transferType = "client" /\ last.req.clientId = last.req.user)

\* C24: whatever the interleaving of the requests in flight, the wallet table
\* holds at most one row for each (owner, currency, type).
C24_WalletsUnique ==
  \A i \in 1..Len(wallets), j \in 1..Len(wallets) :
    (/\ wallets[i].userId = wallets[j].userId
     /\ wallets[i].currency = wallets[j].currency
     /\ wallets[i].type = wallets[j].type) => i = j

\* C25: one call of the native deposit watcher invokes
\* storeAndBroadcastTransaction at most once, whatever the interleaving of the
\* immediate check and the interval checks.
C25_StoredAtMostOnce == probe.stored <= 1

\* C26: once the watcher has observed a matching deposit, depositFound stays
\* set, the interval is eventually cleared and stays cleared, and no check that
\* starts afterwards fetches; as long as no matching deposit was observed the
\* interval is not cleared.
C26_ClearedOnceFound ==
  /\ probe.depositFound ~> probe.cleared
  /\ [](probe.cleared => probe.depositFound)
  /\ [][probe.depositFound
          => /\ probe'.depositFound
             /\ \A p \in Procs : procs'[p].pc = "fetching" => procs[p].pc = "fetching"]_vars
  /\ [][probe.cleared => probe'.cleared]_vars

\* the interval was cleared after a deposit had been observed and stored
C26_Witness ==
  /\ probe.started
  /\ probe.depositFound
  /\ probe.cleared
  /\ probe.stored = 1
  /\ \A p \in Procs : procs[p].pc = "idle"

====
